---------------------------- MODULE Spec2Model ----------------------------
(***************************************************************************)
(* A model of web_scraper.py: the page-fetch tool (fetch_html_text), the   *)
(* result validator (validate_scraping_result) and the pipeline of main:   *)
(* one agent run (run_sync, with the retry budgets the Agent is built      *)
(* with), the emptiness check, the timestamped filename and the CSV write. *)
(*                                                                         *)
(* Texts are sequences of tokens (one-character strings for page text,     *)
(* whole strings for the pieces of a formatted message).  A Python value   *)
(* that may be None is a sequence of length 0 (None) or 1 (the value).     *)
(***************************************************************************)
EXTENDS Naturals, Sequences, FiniteSets

VARIABLES
    arg,             \* the argument of the function under test (unit specifications)
    ret,             \* what the function under test did: pending, return or raise
    procs,           \* the processes running main
    products,        \* the Product records the model can extract from the page
    pc,              \* each process's position in main
    result_retries,  \* the agent run's count of rejected final outputs
    tool_retries,    \* the fetch tool's count of consecutive failed calls
    requests,        \* the agent run's count of requests made to the model
    tool_return,     \* the text the last fetch_html_text call returned to the run
    output,          \* the model's last conforming final output: None or <<Results>>
    data,            \* response.data: None (<<>>) or <<Results>>
    df,              \* the frame main built at line 107: None or <<DataFrame>>
    failure,         \* the exception that ended main's try block, if any
    logged,          \* what the except clause of main logged
    start_time,      \* the clock at which main started
    timestamp,       \* datetime.datetime.now() of line 109
    csv_filename,    \* csv_filename of line 110
    written,         \* the number of to_csv calls the process completed
    clock,           \* local time, in half seconds since midnight of 2024-06-01
    fs,              \* the working directory: file name -> text on disk
    writers,         \* per file name, the processes in the order their writes landed
    overlapped       \* whether a process opened a file another one still had open

vars == <<arg, ret, procs, products, pc, result_retries, tool_retries, requests,
          tool_return, output, data, df, failure, logged, start_time, timestamp,
          csv_filename, written, clock, fs, writers, overlapped>>

unitVars == <<arg, ret>>
mainVars == <<procs, products, pc, result_retries, tool_retries, requests,
              tool_return, output, data, df, failure, logged, start_time, timestamp,
              csv_filename, written, clock, fs, writers, overlapped>>

(***************************************************************************)
(* Bounds of the model.                                                    *)
(***************************************************************************)
MaxText == 4        \* longest page (in tokens) fetched in the unit specification
MaxRecords == 2     \* longest dataset the model returns
MaxTicks == 2       \* half seconds the clock may advance during a run
MaxRequests == 3    \* requests of one agent run the model follows
MaxCandidate == 3   \* longest dataset of a candidate handed to the validator alone
MaxTorn == 2        \* most bytes of a write that land before the write fails

(***************************************************************************)
(* Python values.                                                          *)
(***************************************************************************)
None == <<>>
Some(v) == <<v>>

Return(v) == [kind |-> "return", value |-> v]
Raise(exc) == [kind |-> "raise", value |-> exc]
Pending == [kind |-> "pending", value |-> <<>>]

(***************************************************************************)
(* fetch_html_text.                                                        *)
(***************************************************************************)
LineBreaks == {"\n", "\r"}
Chars == {"a", " ", "\n", "\r"}
Tags == {"<b>"}

\* The ASCII spaces of the parser, among the characters of the model.
AsciiSpaces == {" ", "\n", "\r"}

\* The end (exclusive) of the text node that starts at i: text runs up to the next tag.
RECURSIVE NodeEnd(_, _)
NodeEnd(html, i) ==
    IF i <= Len(html) /\ html[i] \notin Tags THEN NodeEnd(html, i + 1) ELSE i

\* BeautifulSoup stores a text node made only of ASCII spaces as one newline if it
\* holds a newline, else as one space; any other node is stored as it is.
text_node(s) ==
    IF \A k \in 1..Len(s) : s[k] \in AsciiSpaces
    THEN (IF \E k \in 1..Len(s) : s[k] = "\n" THEN <<"\n">> ELSE <<" ">>)
    ELSE s

\* soup.get_text(): the text nodes of the document in order, markup dropped.
RECURSIVE get_text_from(_, _)
get_text_from(html, i) ==
    IF i > Len(html) THEN <<>>
    ELSE IF html[i] \in Tags
         THEN get_text_from(html, i + 1)
         ELSE text_node(SubSeq(html, i, NodeEnd(html, i) - 1))
              \o get_text_from(html, NodeEnd(html, i))

get_text(html) == get_text_from(html, 1)

\* The end (exclusive) of the match of [\n\r]+ that starts at i: the regex is greedy.
RECURSIVE MatchEnd(_, _)
MatchEnd(s, i) ==
    IF i <= Len(s) /\ s[i] \in LineBreaks THEN MatchEnd(s, i + 1) ELSE i

\* re.sub(r"[\n\r]+", " ", s) from position i on: leftmost non-overlapping matches.
RECURSIVE re_sub_from(_, _)
re_sub_from(s, i) ==
    IF i > Len(s) THEN <<>>
    ELSE IF s[i] \in LineBreaks
         THEN <<" ">> \o re_sub_from(s, MatchEnd(s, i))
         ELSE <<s[i]>> \o re_sub_from(s, i + 1)

re_sub_OnePerChar(s) ==
    [i \in 1..Len(s) |-> IF s[i] \in LineBreaks THEN " " ELSE s[i]]

re_sub(s) == re_sub_from(s, 1)

\* The classes of the interpreter and its standard library that derive from
\* BaseException and not from Exception (BaseExceptionGroup exists from python 3.11
\* on; CancelledError is asyncio's); the classes the request and the parsing raise
\* (httpx's, ValueError, RecursionError, ...) all derive from Exception.
BaseExceptionOnly ==
    {"BaseException", "BaseExceptionGroup", "GeneratorExit", "KeyboardInterrupt",
     "SystemExit", "CancelledError", "asyncio.CancelledError"}
issubclass_Exception(exc) == exc \notin BaseExceptionOnly

\* response.raise_for_status(): raises HTTPStatusError unless the status is 2xx.
raise_for_status(status) == ~(200 <= status /\ status < 300)

\* The two except clauses of fetch_html_text, tried in order.
except_clauses_NoCatchAll(url, exc, detail) ==
    IF exc = "HTTPStatusError"
    THEN Return(<<"Error: Unable to fetch content from ">> \o url)
    ELSE Raise(<<exc>>)

except_clauses(url, exc, detail) ==
    IF exc = "HTTPStatusError"
    THEN Return(<<"Error: Unable to fetch content from ">> \o url)
    ELSE IF issubclass_Exception(exc)
         THEN Return(<<"Error: ">> \o detail)
         ELSE Raise(<<exc>>)

\* An outcome of client.get(url) and of the parsing that follows it.
Response(status, html, parse_exc) ==
    [kind |-> "response", status |-> status, html |-> html,
     exc |-> parse_exc, detail |-> <<"maximum recursion depth exceeded">>]
RequestError(exc, detail) ==
    [kind |-> "exception", status |-> 0, html |-> <<>>,
     exc |-> exc, detail |-> detail]

fetch_html_text(url, http) ==
    IF http.kind = "exception"
    THEN except_clauses(url, http.exc, http.detail)
    ELSE IF raise_for_status(http.status)
         THEN except_clauses(url, "HTTPStatusError", <<"status error">>)
         ELSE IF http.exc # "none"
              THEN except_clauses(url, http.exc, http.detail)
              ELSE Return(re_sub(get_text(http.html)))

(***************************************************************************)
(* Product, Results and validate_scraping_result.                          *)
(***************************************************************************)
Product(brand, name, price, rating) ==
    [brand_name |-> brand, product_name |-> name, price |-> price,
     rating_count |-> rating]

\* A value of some Python type; only a Results has the attribute dataset.
Value(type, dataset) == [type |-> type, dataset |-> dataset]
Results(dataset) == Value("Results", dataset)
NoneValue == Value("NoneType", <<>>)

isinstance(v, type) == v.type = type
truthy(list) == Len(list) > 0

validate_scraping_result_NoTypeCheck(result) ==
    IF truthy(result.dataset) THEN Return(result) ELSE Return(NoneValue)

validate_scraping_result(result) ==
    IF isinstance(result, "Results") /\ truthy(result.dataset)
    THEN Return(result)
    ELSE Return(NoneValue)


(***************************************************************************)
(* The persistence step of main: DataFrame, strftime, to_csv.              *)
(***************************************************************************)
\* item.model_dump(): the fields in declaration order, as (key, value) pairs.
model_dump_PriceLast(item) ==
    << <<"brand_name", Some(item.brand_name)>>,
       <<"product_name", Some(item.product_name)>>,
       <<"rating_count", item.rating_count>>,
       <<"price", item.price>> >>

model_dump(item) ==
    << <<"brand_name", Some(item.brand_name)>>,
       <<"product_name", Some(item.product_name)>>,
       <<"price", item.price>>,
       <<"rating_count", item.rating_count>> >>

\* pd.DataFrame(list of dicts): the columns are the keys in order of appearance.
DataFrame(dicts) ==
    [columns |-> IF dicts = <<>> THEN <<>>
                 ELSE [i \in 1..Len(dicts[1]) |-> dicts[1][i][1]],
     rows |-> [r \in 1..Len(dicts) |->
                  [i \in 1..Len(dicts[r]) |-> dicts[r][i][2]]]]

\* A missing value (None) is written as the empty string (na_rep).
cell(v) == IF v = None THEN "" ELSE v[1]

\* The characters that make the csv writer quote a field, for the line terminator
\* "\n" that to_csv passes: the delimiter, the quote and the characters of the
\* terminator; from python 3.13 on also "\r". The code pins no interpreter.
QuotedBefore313 == {",", "\"", "\n"}
QuotedFrom313 == {",", "\"", "\n", "\r"}
CsvWriters == {QuotedBefore313, QuotedFrom313}

\* A field as the csv writer emits it: quoted, with its quotes doubled, when it
\* holds one of the characters in special.
RECURSIVE DoubleQuotes(_)
DoubleQuotes(s) ==
    IF Len(s) = 0 THEN ""
    ELSE (IF SubSeq(s, 1, 1) = "\"" THEN "\"\"" ELSE SubSeq(s, 1, 1))
         \o DoubleQuotes(SubSeq(s, 2, Len(s)))

field(s, special) ==
    IF \E k \in 1..Len(s) : SubSeq(s, k, k) \in special
    THEN "\"" \o DoubleQuotes(s) \o "\""
    ELSE s

\* One line of the file: the fields joined by commas, then the line terminator.
RECURSIVE csv_fields(_, _)
csv_fields(cells, special) ==
    IF Len(cells) = 0 THEN ""
    ELSE IF Len(cells) = 1 THEN field(cells[1], special)
    ELSE field(cells[1], special) \o "," \o csv_fields(Tail(cells), special)

csv_line(cells, special) == csv_fields(cells, special) \o "\n"

RECURSIVE csv_lines(_, _)
csv_lines(rows, special) ==
    IF Len(rows) = 0 THEN ""
    ELSE csv_line([i \in 1..Len(rows[1]) |-> cell(rows[1][i])], special)
         \o csv_lines(Tail(rows), special)

\* df.to_csv(index=False): the text of the file, the header line then one line per
\* record.
to_csv(frame, special) ==
    csv_line(frame.columns, special) \o csv_lines(frame.rows, special)

\* The text main writes for a dataset (lines 107 and 111), under a csv writer that
\* quotes the characters in special.
csv_rows(dataset, special) ==
    to_csv(DataFrame([i \in 1..Len(dataset) |-> model_dump(dataset[i])]), special)

DigitChars == <<"0", "1", "2", "3", "4", "5", "6", "7", "8", "9">>
Pad2(n) == <<DigitChars[(n \div 10) + 1], DigitChars[(n % 10) + 1]>>

\* now.strftime("%Y-%m-%d_%H-%M-%S") for a time t of 2024-06-01, in half seconds.
strftime(t) ==
    LET secs == t \div 2
    IN  <<"2", "0", "2", "4", "-", "0", "6", "-", "0", "1", "_">>
        \o Pad2(secs \div 3600) \o <<"-">>
        \o Pad2((secs % 3600) \div 60) \o <<"-">>
        \o Pad2(secs % 60)

Filename(ts) == <<"product_listings_">> \o ts \o <<".csv">>

\* A write of text at offset 0 of a file that holds old: the bytes of old beyond
\* the length of text stay.
Overlay(old, text) == text \o SubSeq(old, Len(text) + 1, Len(old))

(***************************************************************************)
(* The inputs of the pipeline.                                             *)
(***************************************************************************)
Products ==
    { Product("Acme", "Chair", Some("$49"), Some("120")),
      Product("Acme", "Lamp", None, Some("30")),
      Product("Acme", "Desk", Some("$99"), None),
      Product("Bolt", "Lamp", None, None) }

TwoProducts ==
    { Product("Acme", "Chair", Some("$49"), Some("120")),
      Product("Acme", "Lamp", None, Some("30")) }

Datasets(P, n) == UNION {[1..k -> P] : k \in 0..n}

Prompt == <<"https://www.ikea.com/fi/en/cat/best-sellers/">>
Urls == {Prompt, <<"ikea.com">>}

\* 10:15:30 and 10:15:59 of 2024-06-01, in half seconds since midnight.
ClockAt101530 == 2 * (10 * 3600 + 15 * 60 + 30)
StartClocks == {ClockAt101530, 2 * (10 * 3600 + 15 * 60 + 59)}

Texts(n) == UNION {[1..k -> Chars \cup Tags] : k \in 0..n}

HttpOutcomes(htmls) ==
    {Response(200, h, "none") : h \in htmls}
    \cup {Response(s, <<>>, "none") : s \in {204, 301, 400, 404, 500}}
    \cup {Response(200, <<"<b>">>, "RecursionError")}
    \cup {RequestError("ConnectError", <<"All connection attempts failed">>),
          RequestError("ConnectTimeout", <<"timed out">>),
          RequestError("ReadTimeout", <<"The read operation timed out">>),
          RequestError("RemoteProtocolError", <<"Server disconnected">>),
          RequestError("ValueError", <<"boom">>),
          RequestError("UnsupportedProtocol",
                       <<"Request URL is missing an 'http://' or 'https://' protocol.">>)}

\* What a fetch of url made during an agent run can meet: a url without a protocol
\* is refused by the client before any request, the prompt's url is requested.
ToolHttp(url) ==
    IF url = Prompt
    THEN {Response(200, <<"a", "\n", "\r", "a">>, "none"),
          Response(404, <<>>, "none"),
          RequestError("ConnectError", <<"All connection attempts failed">>)}
    ELSE {RequestError("UnsupportedProtocol",
                       <<"Request URL is missing an 'http://' or 'https://' protocol.">>)}

retries == 1         \* Agent(retries=1)
tool_max_retries == 1    \* tool_plain(retries=1)

NoFailure == [class |-> "none", msg |-> "", caught |-> FALSE]
Exception(class, msg) == [class |-> class, msg |-> msg, caught |-> FALSE]


(***************************************************************************)
(* main: the try block and its except clause.                              *)
(***************************************************************************)
Done(p) == pc[p] \in {"exited", "crashed"}

\* How an exception raised inside the try block leaves main (lines 115-116):
\* UnexpectedModelBehavior is caught and logged; anything else propagates.
main_except_LogNothing(p, exc) ==
    /\ failure' = [failure EXCEPT ![p] = [exc EXCEPT !.caught = TRUE]]
    /\ logged' = logged
    /\ pc' = [pc EXCEPT ![p] = "exited"]

main_except(p, exc) ==
    IF exc.class = "UnexpectedModelBehavior"
    THEN /\ failure' = [failure EXCEPT ![p] = [exc EXCEPT !.caught = TRUE]]
         /\ logged' = [logged EXCEPT ![p] = Some(<<"Scraping error: ", exc.msg>>)]
         /\ pc' = [pc EXCEPT ![p] = "exited"]
    ELSE /\ failure' = [failure EXCEPT ![p] = exc]
         /\ logged' = logged
         /\ pc' = [pc EXCEPT ![p] = "crashed"]

\* main enters the try block and calls run_sync(prompt) (lines 96-99).
MainStart(p) ==
    /\ pc[p] = "start"
    /\ pc' = [pc EXCEPT ![p] = "agent"]
    /\ start_time' = [start_time EXCEPT ![p] = Some(clock)]
    /\ result_retries' = [result_retries EXCEPT ![p] = 0]
    /\ tool_retries' = [tool_retries EXCEPT ![p] = 0]
    /\ requests' = [requests EXCEPT ![p] = 0]
    /\ UNCHANGED <<unitVars, procs, products, tool_return, output, data, df, failure,
                   logged, timestamp, csv_filename, written, clock, fs, writers,
                   overlapped>>

(***************************************************************************)
(* The agent run: each action is one request to the model and what the     *)
(* framework does with the response.                                       *)
(***************************************************************************)
\* run_sync is under way (line 99) and asks the model once more. The code sets no
\* limit on the requests of a run; the model follows a run for MaxRequests of them.
CanRequest(p) == pc[p] = "agent" /\ requests[p] < MaxRequests

\* The model calls fetch_html_text with a url; the text goes back to the model.
ModelCallsTool(p) ==
    /\ CanRequest(p)
    /\ \E url \in Urls : \E http \in ToolHttp(url) :
         LET r == fetch_html_text(url, http)
         IN  /\ requests' = [requests EXCEPT ![p] = @ + 1]
             /\ IF r.kind = "return"
                THEN /\ tool_return' = [tool_return EXCEPT ![p] = r.value]
                     /\ tool_retries' = [tool_retries EXCEPT ![p] = 0]
                     /\ UNCHANGED <<pc, failure, logged>>
                ELSE /\ main_except(p, Exception(r.value[1], "raised by the tool"))
                     /\ UNCHANGED <<tool_return, tool_retries>>
    /\ UNCHANGED <<unitVars, procs, products, result_retries, output, data, df, start_time,
                   timestamp, csv_filename, written, clock, fs, writers, overlapped>>

\* The model calls the tool with arguments that do not validate: a retry prompt,
\* unless the tool's retries (tool_plain(retries=1)) are used up.
ModelCallsToolBadly(p) ==
    /\ CanRequest(p)
    /\ requests' = [requests EXCEPT ![p] = @ + 1]
    /\ tool_retries' = [tool_retries EXCEPT ![p] = @ + 1]
    /\ IF tool_retries'[p] > tool_max_retries
       THEN main_except(p, Exception("UnexpectedModelBehavior",
                              "Tool exceeded max retries count of 1"))
       ELSE UNCHANGED <<pc, failure, logged>>
    /\ UNCHANGED <<unitVars, procs, products, result_retries, tool_return, output,
                   data, df, start_time, timestamp, csv_filename, written, clock, fs,
                   writers, overlapped>>

\* The model's final output does not conform to Results: a retry prompt, unless
\* the result retries (Agent(retries=1)) are used up.
ModelOutputInvalid_TwoRetries(p) ==
    /\ CanRequest(p)
    /\ requests' = [requests EXCEPT ![p] = @ + 1]
    /\ result_retries' = [result_retries EXCEPT ![p] = @ + 1]
    /\ IF result_retries'[p] > retries + 1
       THEN main_except(p, Exception("UnexpectedModelBehavior",
                              "Exceeded maximum retries (1) for result validation"))
       ELSE UNCHANGED <<pc, failure, logged>>
    /\ UNCHANGED <<unitVars, procs, products, tool_retries, tool_return, output, data, df,
                   start_time, timestamp, csv_filename, written, clock, fs,
                   writers, overlapped>>

ModelOutputInvalid(p) ==
    /\ CanRequest(p)
    /\ requests' = [requests EXCEPT ![p] = @ + 1]
    /\ result_retries' = [result_retries EXCEPT ![p] = @ + 1]
    /\ IF result_retries'[p] > retries
       THEN main_except(p, Exception("UnexpectedModelBehavior",
                              "Exceeded maximum retries (1) for result validation"))
       ELSE UNCHANGED <<pc, failure, logged>>
    /\ UNCHANGED <<unitVars, procs, products, tool_retries, tool_return, output, data, df,
                   start_time, timestamp, csv_filename, written, clock, fs,
                   writers, overlapped>>

\* The model's final output conforms to Results: the result validator runs, what
\* it returns becomes response.data, and run_sync returns.
ModelOutputValid(p) ==
    /\ CanRequest(p)
    /\ \E ds \in Datasets(products, MaxRecords) :
         LET v == validate_scraping_result(Results(ds))
         IN  /\ requests' = [requests EXCEPT ![p] = @ + 1]
             /\ output' = [output EXCEPT ![p] = Some(Results(ds))]
             /\ data' = [data EXCEPT ![p] =
                            IF v.value = NoneValue THEN None ELSE Some(v.value)]
             /\ pc' = [pc EXCEPT ![p] = "check"]
    /\ UNCHANGED <<unitVars, procs, products, result_retries, tool_retries,
                   tool_return, df, failure, logged, start_time, timestamp,
                   csv_filename, written, clock, fs, writers, overlapped>>

\* The request to the model fails (the provider cannot be reached): the client's
\* exception is no UnexpectedModelBehavior.
ModelRequestFails(p) ==
    /\ CanRequest(p)
    /\ main_except(p, Exception("APIConnectionError", "Connection error."))
    /\ UNCHANGED <<unitVars, procs, products, result_retries, tool_retries,
                   requests, tool_return, output, data, df, start_time, timestamp,
                   csv_filename, written, clock, fs, writers, overlapped>>

(***************************************************************************)
(* main after run_sync returned.                                           *)
(***************************************************************************)
NoData(d) == d = None \/ ~truthy(d[1].dataset)

\* Lines 101-107: no data raises UnexpectedModelBehavior, else the frame is built.
MainCheck_NoCheck(p) ==
    /\ pc[p] = "check"
    /\ IF data[p] = None
       THEN /\ main_except(p, Exception("AttributeError",
                              "'NoneType' object has no attribute 'dataset'"))
            /\ UNCHANGED df
       ELSE /\ df' = [df EXCEPT ![p] =
                        Some(DataFrame([i \in 1..Len(data[p][1].dataset) |->
                                           model_dump(data[p][1].dataset[i])]))]
            /\ pc' = [pc EXCEPT ![p] = "stamp"]
            /\ UNCHANGED <<failure, logged>>
    /\ UNCHANGED <<unitVars, procs, products, result_retries, tool_retries,
                   requests, tool_return, output, data, start_time, timestamp,
                   csv_filename, written, clock, fs, writers, overlapped>>

MainCheck(p) ==
    /\ pc[p] = "check"
    /\ IF NoData(data[p])
       THEN /\ main_except(p, Exception("UnexpectedModelBehavior",
                              "No valid data retrieved."))
            /\ UNCHANGED df
       ELSE /\ df' = [df EXCEPT ![p] =
                        Some(DataFrame([i \in 1..Len(data[p][1].dataset) |->
                                           model_dump(data[p][1].dataset[i])]))]
            /\ pc' = [pc EXCEPT ![p] = "stamp"]
            /\ UNCHANGED <<failure, logged>>
    /\ UNCHANGED <<unitVars, procs, products, result_retries, tool_retries,
                   requests, tool_return, output, data, start_time, timestamp,
                   csv_filename, written, clock, fs, writers, overlapped>>

\* Lines 109-110: the time is read now, after the run, and formatted.
MainStamp_StartTime(p) ==
    /\ pc[p] = "stamp"
    /\ timestamp' = [timestamp EXCEPT ![p] = start_time[p]]
    /\ csv_filename' = [csv_filename EXCEPT ![p] =
                           Some(Filename(strftime(start_time[p][1])))]
    /\ pc' = [pc EXCEPT ![p] = "open"]
    /\ UNCHANGED <<unitVars, procs, products, result_retries, tool_retries,
                   requests, tool_return, output, data, df, failure, logged, start_time,
                   written, clock, fs, writers, overlapped>>

MainStamp(p) ==
    /\ pc[p] = "stamp"
    /\ timestamp' = [timestamp EXCEPT ![p] = Some(clock)]
    /\ csv_filename' = [csv_filename EXCEPT ![p] = Some(Filename(strftime(clock)))]
    /\ pc' = [pc EXCEPT ![p] = "open"]
    /\ UNCHANGED <<unitVars, procs, products, result_retries, tool_retries,
                   requests, tool_return, output, data, df, failure, logged, start_time,
                   written, clock, fs, writers, overlapped>>

FsPut(f, name, v) == [n \in DOMAIN f \cup {name} |-> IF n = name THEN v ELSE f[n]]

\* to_csv opens csv_filename for writing: the file is created or truncated.
ToCsvOpen_NoTruncate(p) ==
    /\ pc[p] = "open"
    /\ fs' = IF csv_filename[p][1] \in DOMAIN fs THEN fs
             ELSE FsPut(fs, csv_filename[p][1], "")
    /\ overlapped' = (overlapped \/ \E q \in procs \ {p} :
                         pc[q] = "write" /\ csv_filename[q] = csv_filename[p])
    /\ pc' = [pc EXCEPT ![p] = "write"]
    /\ UNCHANGED <<unitVars, procs, products, result_retries, tool_retries,
                   requests, tool_return, output, data, df, failure, logged, start_time,
                   timestamp, csv_filename, written, clock, writers>>

ToCsvOpen(p) ==
    /\ pc[p] = "open"
    /\ fs' = FsPut(fs, csv_filename[p][1], "")
    /\ overlapped' = (overlapped \/ \E q \in procs \ {p} :
                         pc[q] = "write" /\ csv_filename[q] = csv_filename[p])
    /\ pc' = [pc EXCEPT ![p] = "write"]
    /\ UNCHANGED <<unitVars, procs, products, result_retries, tool_retries,
                   requests, tool_return, output, data, df, failure, logged, start_time,
                   timestamp, csv_filename, written, clock, writers>>

\* The file cannot be opened: the OSError is not caught by main.
ToCsvOpenFails(p) ==
    /\ pc[p] = "open"
    /\ main_except(p, Exception("OSError", "Permission denied"))
    /\ UNCHANGED <<unitVars, procs, products, result_retries, tool_retries,
                   requests, tool_return, output, data, df, start_time, timestamp,
                   csv_filename, written, clock, fs, writers, overlapped>>

\* The flush of to_csv fails after the file was opened (the disk is full, an I/O
\* error): some first bytes of the text may have landed, the OSError is not caught
\* by main, and line 113 is not reached.
ToCsvWriteFails(p) ==
    LET name == csv_filename[p][1]
    IN  /\ pc[p] = "write"
        /\ \E special \in CsvWriters :
              \E text \in {to_csv(df[p][1], special)} :
                \E k \in 0..MaxTorn :
                    /\ k < Len(text)
                    /\ fs' = FsPut(fs, name, Overlay(fs[name], SubSeq(text, 1, k)))
        /\ main_except(p, Exception("OSError", "No space left on device"))
        /\ UNCHANGED <<unitVars, procs, products, result_retries, tool_retries,
                       requests, tool_return, output, data, df, start_time,
                       timestamp, csv_filename, written, clock, writers, overlapped>>

\* to_csv flushes the text at the handle's offset 0 and closes (the text fits the
\* handle's buffer, so it lands in one write); line 113 logs.
ToCsvWrite(p) ==
    LET name == csv_filename[p][1]
    IN  /\ pc[p] = "write"
        /\ \E special \in CsvWriters :
              fs' = FsPut(fs, name, Overlay(fs[name], to_csv(df[p][1], special)))
        /\ writers' = FsPut(writers, name,
                            Append(IF name \in DOMAIN writers THEN writers[name]
                                   ELSE <<>>, p))
        /\ written' = [written EXCEPT ![p] = @ + 1]
        /\ pc' = [pc EXCEPT ![p] = "exited"]
        /\ UNCHANGED <<unitVars, procs, products, result_retries, tool_retries,
                       requests, tool_return, output, data, df, failure, logged, start_time,
                       timestamp, csv_filename, clock, overlapped>>

\* Local time passes.
Tick ==
    /\ \E c \in StartClocks : c <= clock /\ clock < c + MaxTicks
    /\ clock' = clock + 1
    /\ UNCHANGED <<unitVars, procs, products, pc, result_retries, tool_retries,
                   requests, tool_return, output, data, df, failure, logged, start_time,
                   timestamp, csv_filename, written, fs, writers, overlapped>>

(***************************************************************************)
(* Specifications.                                                         *)
(***************************************************************************)
NoUnit == arg = <<>> /\ ret = Pending

MainInit(P, prods, clocks) ==
    /\ procs = P
    /\ products = prods
    /\ pc = [p \in P |-> "start"]
    /\ result_retries = [p \in P |-> 0]
    /\ tool_retries = [p \in P |-> 0]
    /\ requests = [p \in P |-> 0]
    /\ tool_return = [p \in P |-> None]
    /\ output = [p \in P |-> None]
    /\ data = [p \in P |-> None]
    /\ df = [p \in P |-> None]
    /\ failure = [p \in P |-> NoFailure]
    /\ logged = [p \in P |-> None]
    /\ start_time = [p \in P |-> None]
    /\ timestamp = [p \in P |-> None]
    /\ csv_filename = [p \in P |-> None]
    /\ written = [p \in P |-> 0]
    /\ clock \in clocks
    /\ fs = [n \in {} |-> <<>>]
    /\ writers = [n \in {} |-> <<>>]
    /\ overlapped = FALSE

\* One process runs main.
Init == NoUnit /\ MainInit({1}, Products, StartClocks)

Next ==
    \/ Tick
    \/ \E p \in procs : MainStart(p)
    \/ \E p \in procs : ModelCallsTool(p)
    \/ \E p \in procs : ModelCallsToolBadly(p)
    \/ \E p \in procs : ModelOutputInvalid(p)
    \/ \E p \in procs : ModelOutputValid(p)
    \/ \E p \in procs : ModelRequestFails(p)
    \/ \E p \in procs : MainCheck(p)
    \/ \E p \in procs : MainStamp(p)
    \/ \E p \in procs : ToCsvOpen(p)
    \/ \E p \in procs : ToCsvOpenFails(p)
    \/ \E p \in procs : ToCsvWriteFails(p)
    \/ \E p \in procs : ToCsvWrite(p)

Spec == Init /\ [][Next]_vars

\* Two processes run main in the same working directory; the model answers each
\* with a conforming output at once, and the file system fails neither: the runs
\* are those in which both processes get to save.
InitRace == NoUnit /\ MainInit({1, 2}, TwoProducts, {ClockAt101530})

NextRace ==
    \/ Tick
    \/ \E p \in procs : MainStart(p)
    \/ \E p \in procs : ModelOutputValid(p)
    \/ \E p \in procs : MainCheck(p)
    \/ \E p \in procs : MainStamp(p)
    \/ \E p \in procs : ToCsvOpen(p)
    \/ \E p \in procs : ToCsvWrite(p)

SpecRace == InitRace /\ [][NextRace]_vars

\* fetch_html_text alone, on every url and outcome of the request.
InitFetch ==
    /\ arg \in [url : Urls, http : HttpOutcomes(Texts(MaxText))]
    /\ ret = Pending
    /\ MainInit({}, {}, {0})

CallFetch ==
    /\ ret.kind = "pending"
    /\ ret' = fetch_html_text(arg.url, arg.http)
    /\ UNCHANGED <<arg, mainVars>>

SpecFetch == InitFetch /\ [][CallFetch]_vars

\* validate_scraping_result alone, on candidates of several types.
Candidates ==
    {Value(t, ds) : t \in {"Results", "OtherModel"},
                    ds \in Datasets(Products, MaxCandidate)}
    \cup {NoneValue, Value("str", <<>>)}

InitValidate ==
    /\ arg \in Candidates
    /\ ret = Pending
    /\ MainInit({}, {}, {0})

CallValidate ==
    /\ ret.kind = "pending"
    /\ ret' = validate_scraping_result(arg)
    /\ UNCHANGED <<arg, mainVars>>

SpecValidate == InitValidate /\ [][CallValidate]_vars


(***************************************************************************)
(* The claims.                                                             *)
(***************************************************************************)
Called == ret.kind # "pending"

\* C1: fetch_html_text never raises: for a response with status >= 400 it returns
\* "Error: Unable to fetch content from <url>", which contains the url, and for any
\* other exception of the request or the parsing it returns "Error: <detail>".
C1_FetchNeverRaises ==
    Called =>
        /\ ret.kind = "return"
        /\ (arg.http.kind = "response" /\ arg.http.status >= 400) =>
               /\ ret.value = <<"Error: Unable to fetch content from ">> \o arg.url
               /\ \E i \in 1..Len(ret.value) :
                      SubSeq(ret.value, i, i + Len(arg.url) - 1) = arg.url
        /\ (\/ arg.http.kind = "exception"
            \/ arg.http.kind = "response" /\ arg.http.status = 200
                                          /\ arg.http.exc # "none") =>
               ret.value = <<"Error: ">> \o arg.http.detail

C1_Witness ==
    /\ ret.kind = "return"
    /\ arg.http.kind = "exception"
    /\ arg.http.exc = "ReadTimeout"
    /\ ret.value = <<"Error: ", "The read operation timed out">>

\* C2: validate_scraping_result accepts (returns the candidate unchanged) iff the
\* candidate is a Results with a dataset of length >= 1; otherwise it returns None,
\* and it never raises (so it asks for no retry).
C2_ValidatorAcceptsIffNonEmptyResults ==
    Called =>
        /\ ret.kind = "return"
        /\ (ret.value # NoneValue) <=> (arg.type = "Results" /\ Len(arg.dataset) >= 1)
        /\ (ret.value # NoneValue) => ret.value = arg

C2_Witness ==
    /\ ret.kind = "return"
    /\ arg.type = "Results"
    /\ Len(arg.dataset) = 2
    /\ ret.value = arg

Failed(p) == Done(p) /\ failure[p].class # "none"

\* A file is written only for a result the validator accepted, non-empty.
WrittenOnlyAccepted ==
    \A p \in procs :
        (pc[p] \in {"open", "write"} \/ written[p] > 0) =>
            /\ data[p] # None
            /\ data[p] = output[p]
            /\ Len(data[p][1].dataset) >= 1

\* C3 as stated: a file is written only for an accepted non-empty result, and every
\* failure of the agent run is caught at the top level, logged, and leaves no file.
C3_Original ==
    /\ WrittenOnlyAccepted
    /\ \A p \in procs :
          (Failed(p) /\ csv_filename[p] = None) =>
              /\ failure[p].caught
              /\ logged[p] # None
              /\ written[p] = 0
              /\ DOMAIN fs = {}

\* C3 as amended: a file is written only for an accepted non-empty result; a failure
\* of the agent run or of the check of its result that is an UnexpectedModelBehavior
\* is caught, logged ("Scraping error: ...") and main returns with no file written;
\* any other exception is not caught: it leaves main unlogged, and when it came
\* before the persistence step no file exists either. A failure of the persistence
\* step itself is such an uncaught exception, after a file may have been created.
C3_Amended ==
    /\ WrittenOnlyAccepted
    /\ \A p \in procs :
          Failed(p) =>
              /\ written[p] = 0
              /\ IF csv_filename[p] = None
                 THEN DOMAIN fs = {}
                 ELSE /\ failure[p].class = "OSError"
                      /\ \A name \in DOMAIN fs :
                            \E special \in CsvWriters :
                              LET text == csv_rows(data[p][1].dataset, special)
                              IN  /\ Len(fs[name]) < Len(text)
                                  /\ fs[name] = SubSeq(text, 1, Len(fs[name]))
              /\ IF failure[p].class = "UnexpectedModelBehavior"
                 THEN /\ failure[p].caught
                      /\ logged[p] = Some(<<"Scraping error: ", failure[p].msg>>)
                      /\ pc[p] = "exited"
                 ELSE /\ ~failure[p].caught
                      /\ logged[p] = None
                      /\ pc[p] = "crashed"

C3_Witness ==
    /\ pc[1] = "crashed"
    /\ failure[1].class = "APIConnectionError"
    /\ tool_return[1] # None
    /\ DOMAIN fs = {}

\* The line of the file that holds record r.
LineOf(r) ==
    r.brand_name \o "," \o r.product_name \o ","
    \o (IF r.price = None THEN "" ELSE r.price[1]) \o ","
    \o (IF r.rating_count = None THEN "" ELSE r.rating_count[1]) \o "\n"

HeaderLine == "brand_name,product_name,price,rating_count\n"

\* The offset in the file at which the line of record i starts.
RECURSIVE LineStart(_, _)
LineStart(ds, i) ==
    IF i = 1 THEN Len(HeaderLine) + 1
    ELSE LineStart(ds, i - 1) + Len(LineOf(ds[i - 1]))

\* C4: for a result set of N >= 1 records the file holds one header row and N data
\* rows, the columns in the order brand_name, product_name, price, rating_count,
\* row i holding record i, an absent price or rating_count as an empty cell.
C4_CsvRows ==
    \A p \in procs :
        written[p] = 1 =>
            LET text == fs[csv_filename[p][1]]
                ds == data[p][1].dataset
            IN  /\ Len(ds) >= 1
                /\ Cardinality({k \in 1..Len(text) : SubSeq(text, k, k) = "\n"})
                      = 1 + Len(ds)
                /\ SubSeq(text, 1, Len(HeaderLine)) = HeaderLine
                /\ \A i \in 1..Len(ds) :
                      SubSeq(text, LineStart(ds, i), LineStart(ds, i + 1) - 1)
                          = LineOf(ds[i])
                /\ Len(text) = LineStart(ds, Len(ds) + 1) - 1

C4_Witness ==
    /\ written[1] = 1
    /\ data[1][1].dataset = << Product("Acme", "Chair", Some("$49"), Some("120")),
                               Product("Acme", "Lamp", None, Some("30")) >>
    /\ fs[csv_filename[1][1]] =
          "brand_name,product_name,price,rating_count\nAcme,Chair,$49,120\nAcme,Lamp,,30\n"

SchemaError ==
    [class |-> "UnexpectedModelBehavior",
     msg |-> "Exceeded maximum retries (1) for result validation",
     caught |-> TRUE]

\* C6: a non-conforming final output is retried at most once; a second one ends
\* the run in an UnexpectedModelBehavior failure, after which no request is made.
C6_OneSchemaRetry ==
    /\ [](\A p \in procs :
            /\ result_retries[p] <= retries + 1
            /\ (result_retries[p] > retries) <=> (failure[p] = SchemaError)
            /\ failure[p] = SchemaError =>
                  /\ pc[p] = "exited"
                  /\ logged[p] = Some(<<"Scraping error: ", SchemaError.msg>>)
                  /\ written[p] = 0)
    /\ [][\A p \in procs :
             /\ result_retries[p] > retries => requests'[p] = requests[p]
             /\ result_retries'[p] # result_retries[p] =>
                   /\ result_retries'[p] = result_retries[p] + 1
                   /\ requests'[p] = requests[p] + 1]_vars

C6_Witness ==
    /\ result_retries[1] = 2
    /\ failure[1] = SchemaError
    /\ pc[1] = "exited"
    /\ tool_return[1] # None

NoValidData ==
    [class |-> "UnexpectedModelBehavior", msg |-> "No valid data retrieved.",
     caught |-> TRUE]

EmptyOutput(p) == output[p] # None /\ output[p][1].dataset = <<>>

\* C7: a conforming but empty dataset makes the run fail with "No valid data
\* retrieved.": the validator's None is raised by main as a failure of its own,
\* another outcome than the schema error, and the schema retries are left alone.
C7_EmptyDatasetFails ==
    /\ [](\A p \in procs :
            /\ (EmptyOutput(p) /\ pc[p] # "agent") => data[p] = None
            /\ (EmptyOutput(p) /\ Done(p)) =>
                  /\ failure[p] = NoValidData
                  /\ failure[p] # SchemaError
                  /\ pc[p] = "exited"
                  /\ logged[p] = Some(<<"Scraping error: ", "No valid data retrieved.">>)
                  /\ written[p] = 0
                  /\ DOMAIN fs = {}
            /\ failure[p] = NoValidData => EmptyOutput(p))
    /\ [][\A p \in procs :
             /\ output'[p] # output[p] =>
                   (result_retries'[p] = result_retries[p] /\ pc'[p] = "check")
             /\ (EmptyOutput(p) /\ pc[p] = "check") =>
                   (result_retries'[p] = result_retries[p]
                    /\ requests'[p] = requests[p])]_vars

C7_Witness ==
    /\ EmptyOutput(1)
    /\ failure[1] = NoValidData
    /\ result_retries[1] = 1
    /\ pc[1] = "exited"

\* The time of day, in seconds, that a file name spells.
DigitValue(d) == CHOOSE n \in 0..9 : DigitChars[n + 1] = d
SecondsOf(name) ==
    3600 * (10 * DigitValue(name[13]) + DigitValue(name[14]))
    + 60 * (10 * DigitValue(name[16]) + DigitValue(name[17]))
    + (10 * DigitValue(name[19]) + DigitValue(name[20]))

WellFormedName(name) ==
    /\ Len(name) = 21
    /\ name[1] = "product_listings_"
    /\ SubSeq(name, 2, 12) = <<"2", "0", "2", "4", "-", "0", "6", "-", "0", "1", "_">>
    /\ name[15] = "-" /\ name[18] = "-"
    /\ name[21] = ".csv"

\* C8 as stated: the file name carries the local time at which the run started.
C8_Original ==
    \A p \in procs :
        csv_filename[p] # None =>
            /\ WellFormedName(csv_filename[p][1])
            /\ SecondsOf(csv_filename[p][1]) = start_time[p][1] \div 2

\* C8 as amended: the file is named product_listings_<YYYY-MM-DD_HH-MM-SS>.csv
\* after the local time at which the persistence step runs, once the agent run has
\* returned: a run whose persistence step runs at 2024-06-01 10:15:30 writes
\* product_listings_2024-06-01_10-15-30.csv.
C8_Amended ==
    /\ [](\A p \in procs :
            csv_filename[p] # None =>
               /\ WellFormedName(csv_filename[p][1])
               /\ SecondsOf(csv_filename[p][1]) = timestamp[p][1] \div 2
               /\ start_time[p][1] <= timestamp[p][1]
               /\ timestamp[p][1] <= clock
               /\ timestamp[p][1] \div 2 = 10 * 3600 + 15 * 60 + 30 =>
                     csv_filename[p][1] =
                        <<"product_listings_", "2", "0", "2", "4", "-", "0", "6",
                          "-", "0", "1", "_", "1", "0", "-", "1", "5", "-", "3",
                          "0", ".csv">>)
    /\ [][\A p \in procs :
             csv_filename'[p] # csv_filename[p] =>
                /\ pc[p] = "stamp"
                /\ output[p] # None
                /\ SecondsOf(csv_filename'[p][1]) = clock \div 2]_vars

C8_Witness ==
    /\ written[1] = 1
    /\ start_time[1][1] \div 2 = 10 * 3600 + 15 * 60 + 59
    /\ SecondsOf(csv_filename[1][1]) = 10 * 3600 + 16 * 60
    /\ csv_filename[1][1] \in DOMAIN fs

BothSaved(p, q) ==
    /\ p # q
    /\ pc[p] = "exited" /\ pc[q] = "exited"
    /\ written[p] = 1 /\ written[q] = 1

LastWriter(name) == writers[name][Len(writers[name])]

\* Two runs whose persistence steps read the clock in the same second derive the
\* same file name, and only then; one file of a name exists.
SameSecondSameName ==
    \A p \in procs, q \in procs :
        (csv_filename[p] # None /\ csv_filename[q] # None) =>
            ((csv_filename[p] = csv_filename[q])
             <=> (timestamp[p][1] \div 2 = timestamp[q][1] \div 2))

\* C9 as stated: when two runs persist within the same second they derive the same
\* name, and after both finish the file holds only the rows of the last writer.
C9_Original ==
    /\ SameSecondSameName
    /\ \A p \in procs, q \in procs :
          (BothSaved(p, q) /\ csv_filename[p] = csv_filename[q]) =>
              LET name == csv_filename[p][1]
              IN  \E special \in CsvWriters :
                      fs[name] = csv_rows(data[LastWriter(name)][1].dataset, special)

\* C9 as amended: when two runs persist within the same second they derive the
\* same name; if their to_csv calls do not overlap (neither opens the file while
\* the other has it open), then after both finish the file holds only the rows of
\* the last writer. There is no collision detection: when the calls overlap, bytes
\* of the other run's text can stay behind the last writer's.
C9_Amended ==
    /\ SameSecondSameName
    /\ \A p \in procs, q \in procs :
          (BothSaved(p, q) /\ csv_filename[p] = csv_filename[q] /\ ~overlapped) =>
              LET name == csv_filename[p][1]
              IN  /\ DOMAIN fs = {name}
                  /\ \E special \in CsvWriters :
                        fs[name] = csv_rows(data[LastWriter(name)][1].dataset, special)

C9_Witness ==
    /\ BothSaved(1, 2)
    /\ csv_filename[1] = csv_filename[2]
    /\ ~overlapped
    /\ timestamp[1] # timestamp[2]
    /\ LastWriter(csv_filename[1][1]) = 1
    /\ Len(data[1][1].dataset) < Len(data[2][1].dataset)
    /\ fs[csv_filename[1][1]] = csv_rows(data[1][1].dataset, QuotedBefore313)

\* Whether position j of text t starts a unit of the flattened text: a character
\* that is no line break, or the first line break of a run.
StartsUnit(t, j) ==
    \/ t[j] \notin LineBreaks
    \/ j = 1
    \/ t[j - 1] \notin LineBreaks
UnitsUpTo(t, i) == Cardinality({j \in 1..i : StartsUnit(t, j)})

Fetched ==
    /\ Called
    /\ arg.http.kind = "response"
    /\ arg.http.status = 200
    /\ arg.http.exc = "none"

\* C10: the text a successful fetch returns holds no newline and no carriage
\* return: every maximal run of them in the extracted text has become one space,
\* every other character is unchanged and in order.
C10_FlattenedText ==
    Fetched =>
        LET t == get_text(arg.http.html)
            o == ret.value
        IN  /\ ret.kind = "return"
            /\ \A k \in 1..Len(o) : o[k] \notin LineBreaks
            /\ Len(o) = UnitsUpTo(t, Len(t))
            /\ \A i \in 1..Len(t) :
                  StartsUnit(t, i) =>
                      o[UnitsUpTo(t, i)] = (IF t[i] \in LineBreaks THEN " " ELSE t[i])

C10_Witness ==
    /\ Fetched
    /\ arg.http.html = <<"a", "\r", "\n", "a">>
    /\ ret.value = <<"a", " ", "a">>

=============================================================================
